---------------------------- MODULE Spec2Model ----------------------------
(***************************************************************************)
(* Model of the MCP server template: the settings object (config.py), the  *)
(* pooled HTTP client wrapper and its process-wide singleton               *)
(* (api_service.py) and the four tools plus the exit path (main.py).       *)
(*                                                                         *)
(* Scheduling is asyncio's: a coroutine runs without interruption until it *)
(* awaits something that really suspends.  get_api_client and get_client   *)
(* contain no await, so a tool runs atomically from its entry to the       *)
(* client.request(...) of line 88, and again from the arrival of the       *)
(* response to its next request or its return.  cleanup_api_client         *)
(* suspends only inside self._client.aclose() (line 67).                   *)
(***************************************************************************)
EXTENDS Integers, Sequences, FiniteSets, TLC

VARIABLES
    apiKey,       \* os.environ["API_KEY"] as os.getenv returns it
    gclient,      \* api_service._client, the global APIClient (NoClient = None)
    handleOf,     \* APIClient._client of every APIClient built so far
    hstate,       \* every httpx.AsyncClient built so far: open, closing, closed
    acloseCalls,  \* per handle, how many times aclose() was called on it
    task,         \* the tool invocations
    cln,          \* the cleanup_api_client invocations
    calls,        \* tool invocations started so far
    cleanups,     \* cleanup invocations started so far
    phase         \* "host": called by a host in any order; else the __main__ flow

vars == <<apiKey, gclient, handleOf, hstate, acloseCalls, task, cln, calls,
          cleanups, phase>>

---------------------------------------------------------------------------
(* Bounds *)

NumTasks == 1          \* tool invocations in progress at once
NumCleanups == 1       \* cleanup invocations in progress at once
MaxCalls == 2          \* tool invocations in one run
MaxCleanupCalls == 2   \* cleanup invocations in one run
MaxListed == 2         \* entries of an upstream "results" array

Tasks == 1..NumTasks
Cleaners == 1..NumCleanups

---------------------------------------------------------------------------
(* Python values *)

None == "None"             \* Python None where the other values are strings
JNull == "<null>"          \* a JSON null field
Absent == "<absent>"       \* a key the JSON object does not have
NoClient == 0              \* the global _client is None
NoHandle == 0              \* APIClient._client is None

EnvKeys == {None, "", "secret"}
ItemId == "i1"

\* Where the functions are called in any order, overlapping with cleanup
\* (phase "host"), what is studied is the life of the handle, and the inputs
\* are a sample that drives every path to a request.  In the __main__ flow
\* they are the full bounded sets.
Limits(sample) == IF sample THEN {200} ELSE {5, 50, 51, 200}
Categories(sample) ==
    IF sample THEN {None, "Drinks"} ELSE {None, "", "Drinks"}

Tools == {"search_items", "get_item_details", "list_categories",
          "get_popular_items"}

\* bool(x) for the strings tested with "if x" / "if not x"
Truthy(s) == s # None /\ s # JNull /\ s # ""

\* str.lower() on the strings of the model
Lower(s) ==
    CASE s = "Drinks" -> "drinks"
      [] s = "DRINKS" -> "drinks"
      [] s = "Food"   -> "food"
      [] OTHER        -> s


---------------------------------------------------------------------------
(* config.py *)

NoExc == [type |-> "none", msg |-> <<>>]
Exc(type, msg) == [type |-> type, msg |-> msg]

\* Settings.api_key: the exception the property raises, NoExc when it returns
\* (variant: only an unset variable is refused)
ApiKeyMissingBug(key) == key = None
ApiKeyMissing(key) == ~Truthy(key)

SettingsApiKey(key) ==
    IF ApiKeyMissing(key)
    THEN Exc("ValueError", <<"API_KEY environment variable is required. ">>)
    ELSE NoExc

---------------------------------------------------------------------------
(* api_service.py: requests and responses *)

LimitCap == 50

Min(a, b) == IF a < b THEN a ELSE b

\* min(limit, 50) of search, get_popular_items and get_items_by_category
\* (variant: the limit is passed on as given)
ClampLimitBug(limit) == limit
ClampLimit(limit) == Min(limit, LimitCap)

\* endpoint strings, kept as their f-string parts
SearchEndpoint == <<"/search">>
DetailsEndpoint(item_id) == <<"/items/", item_id>>
CategoriesEndpoint == <<"/categories">>
PopularEndpoint == <<"/popular">>
CategoryItemsEndpoint(category_id) == <<"/categories/", category_id, "/items">>

\* one element of a "results" array, or the object /items/{id} returns
Entry(name, id, description, full) ==
    [name |-> name, id |-> id, description |-> description,
     full_description |-> full]

CategoryEntries ==
    { Entry("DRINKS", "c1", Absent, Absent), Entry("drinks", JNull, Absent, Absent),
      Entry("Food", "c2", Absent, Absent), Entry(JNull, "c3", Absent, Absent) }
ItemEntries ==
    { Entry(Absent, "i1", d, Absent) : d \in {"text", JNull, Absent} }
DetailEntries ==
    { Entry(Absent, "i1", d, f) :
        d \in {"text", JNull, Absent}, f \in {"text", JNull, Absent} }

SeqsUpTo(S, n) == UNION { [1..k -> S] : k \in 0..n }

ErrorStatuses(sample) == IF sample THEN {} ELSE {401, 404, 429, 500}
HtmlAnswers(sample) == IF sample THEN {} ELSE {"<html>"}
TransportErrors(sample) ==
    IF sample THEN {"timed out"}
    ELSE {"timed out", "connection refused"}

Response(kind, err, status, text, json, entries) ==
    [kind |-> kind, err |-> err, status |-> status, text |-> text,
     json |-> json, entries |-> entries]

NoResponse == Response("none", "", 0, "", FALSE, <<>>)

\* the JSON bodies a 200 answer to a request on `endpoint` can carry
Bodies(endpoint, sample) ==
    IF endpoint = CategoriesEndpoint
    THEN IF sample
         THEN { <<>>, <<Entry("DRINKS", "c1", Absent, Absent)>> }
         ELSE SeqsUpTo(CategoryEntries, MaxListed)
    ELSE IF endpoint[1] = "/items/"
    THEN IF sample THEN { <<Entry(Absent, "i1", "text", "text")>> }
         ELSE { <<e>> : e \in DetailEntries }
    ELSE IF sample THEN { <<Entry(Absent, "i1", "text", Absent)>> }
         ELSE SeqsUpTo(ItemEntries, MaxListed)

\* what comes back from client.request(...) for the request `req`: httpx
\* refuses a handle whose aclose() has started; otherwise the transport fails
\* or the upstream answers
Responses(req, sample) ==
    IF req.hstate # "open" THEN { Response("closed", "", 0, "", FALSE, <<>>) }
    ELSE { Response("transport", e, 0, "", FALSE, <<>>) :
              e \in TransportErrors(sample) }
         \cup { Response("http", "", s, "oops", FALSE, <<>>) :
                  s \in ErrorStatuses(sample) }
         \cup { Response("http", "", 200, x, FALSE, <<>>) :
                  x \in HtmlAnswers(sample) }
         \cup { Response("http", "", 200, "{...}", TRUE, b) :
                  b \in Bodies(req.endpoint, sample) }

\* httpx Response.raise_for_status, line 89
RaisesForStatus(status) == status >= 400

\* the except httpx.HTTPStatusError clause, lines 94-103
\* (variant: no branch for 429)
StatusErrorBug(endpoint, resp) ==
    IF resp.status = 404 THEN Exc("APIError", <<"Not found: ">> \o endpoint)
    ELSE IF resp.status = 401
    THEN Exc("APIError", <<"Invalid API key or authentication failed">>)
    ELSE Exc("APIError", <<"API error ", ToString(resp.status), ": ", resp.text>>)
StatusError(endpoint, resp) ==
    IF resp.status = 404 THEN Exc("APIError", <<"Not found: ">> \o endpoint)
    ELSE IF resp.status = 401
    THEN Exc("APIError", <<"Invalid API key or authentication failed">>)
    ELSE IF resp.status = 429
    THEN Exc("APIError", <<"Rate limit exceeded - try again later">>)
    ELSE Exc("APIError", <<"API error ", ToString(resp.status), ": ", resp.text>>)

\* the except httpx.RequestError clause, lines 105-107
\* (variant: the transport's exception is not wrapped)
RequestErrorBug(resp) == Exc("RequestError", <<resp.err>>)
RequestError(resp) == Exc("APIError", <<"Request failed: ", resp.err>>)

\* client.request on a handle whose aclose() has started: httpx raises
\* RuntimeError, which is no httpx.RequestError, so _make_request lets it through
ClosedHandleError ==
    Exc("RuntimeError", <<"Cannot send a request, as the client has been closed.">>)

\* APIClient._make_request from the response on, lines 88-107: the exception
\* it raises, NoExc when it returns response.json()
MakeRequestResult(endpoint, resp) ==
    IF resp.kind = "closed" THEN ClosedHandleError
    ELSE IF resp.kind = "transport" THEN RequestError(resp)
    ELSE IF RaisesForStatus(resp.status) THEN StatusError(endpoint, resp)
    ELSE IF ~resp.json
    THEN Exc("JSONDecodeError", <<"Expecting value: line 1 column 1 (char 0)">>)
    ELSE NoExc

---------------------------------------------------------------------------
(* api_service.py: the handle and the singleton.  W is the shared state:     *)
(* g the global _client, ho each APIClient's _client, hs and ac the handles. *)

World == [g |-> gclient, ho |-> handleOf, hs |-> hstate, ac |-> acloseCalls]

\* APIClient.get_client, lines 52-62
\* (variant: a handle is built on every call)
GetClientBug(W, a) ==
    LET h == Len(W.hs) + 1
    IN  [W |-> [W EXCEPT !.hs = Append(@, "open"), !.ac = Append(@, 0),
                         !.ho[a] = h],
         handle |-> h]
GetClient(W, a) ==
    IF W.ho[a] = NoHandle
    THEN LET h == Len(W.hs) + 1
         IN  [W |-> [W EXCEPT !.hs = Append(@, "open"), !.ac = Append(@, 0),
                              !.ho[a] = h],
              handle |-> h]
    ELSE [W |-> W, handle |-> W.ho[a]]

\* get_api_client, lines 177-180, with APIClient.__init__, lines 41-43
GetApiClient(W, key) ==
    IF W.g # NoClient THEN [exc |-> NoExc, W |-> W, client |-> W.g]
    ELSE IF SettingsApiKey(key) # NoExc
    THEN [exc |-> SettingsApiKey(key), W |-> W, client |-> NoClient]
    ELSE LET a == Len(W.ho) + 1
         IN  [exc |-> NoExc,
              W |-> [W EXCEPT !.ho = Append(@, NoHandle), !.g = a],
              client |-> a]

\* httpx AsyncClient.aclose() called on handle h (line 67): the handle stops
\* accepting requests at once; the connections are closed while suspended
AcloseBegin(W, h) ==
    [W EXCEPT !.hs[h] = IF @ = "open" THEN "closing" ELSE @, !.ac[h] = @ + 1]

\* what follows the await of line 67: line 68, then line 193
\* (variant: the global reference is not cleared)
CleanupFinishBug(W, a, h) ==
    [W EXCEPT !.hs[h] = "closed", !.ho[a] = NoHandle]
CleanupFinish(W, a, h) ==
    [W EXCEPT !.hs[h] = "closed", !.ho[a] = NoHandle, !.g = NoClient]

---------------------------------------------------------------------------
(* main.py: the tools *)

\* what a tool hands back: a value of its happy-path shape, the one-key
\* sentinel {"error": msg} (in a list for the list-returning tools), or an
\* exception that leaves the tool; cause is the class of the exception handled
Result(status, shape, error, cause) ==
    [status |-> status, shape |-> shape, error |-> error, cause |-> cause]
NoResult == Result("none", "", <<>>, "none")

ToolShape(tool) == IF tool = "get_item_details" THEN "dict" ELSE "list"

ErrorPrefix(tool) ==
    CASE tool = "search_items"      -> "Search failed: "
      [] tool = "get_item_details"  -> "Failed to get item details: "
      [] tool = "list_categories"   -> "Failed to list categories: "
      [] tool = "get_popular_items" -> "Failed to get popular items: "

\* the classes "except Exception" catches, among those the model raises
\* (variant: except APIError)
CaughtByToolBug(type) == type = "APIError"
CaughtByTool(type) ==
    type \in {"ValueError", "APIError", "JSONDecodeError", "AttributeError",
              "RuntimeError", "RequestError"}

\* the except clause of each tool: lines 64-67, 106-108, 140-142, 198-200
Sentinel(tool, exc) ==
    IF CaughtByTool(exc.type)
    THEN Result("sentinel", ToolShape(tool), <<ErrorPrefix(tool)>> \o exc.msg,
                exc.type)
    ELSE Result("raised", "", exc.msg, exc.type)

NoneTypeError(attr) ==
    Exc("AttributeError", <<"'NoneType' object has no attribute '", attr, "'">>)

\* item.get(key, "").strip() raises exactly when the field is a JSON null
StripRaises(v) == v = JNull

\* the loops of lines 51-60 and 185-194
ReshapeItems(entries) ==
    IF \E i \in 1..Len(entries) : StripRaises(entries[i].description)
    THEN NoneTypeError("strip") ELSE NoExc

\* lines 90-102
ReshapeDetails(entry) ==
    IF StripRaises(entry.description) \/ StripRaises(entry.full_description)
    THEN NoneTypeError("strip") ELSE NoExc

\* the loop of lines 169-173, from entry i on
RECURSIVE FindCategory(_, _, _)
FindCategory(cats, category, i) ==
    IF i > Len(cats) THEN [exc |-> NoExc, id |-> None]
    ELSE LET name == IF cats[i].name = Absent THEN "" ELSE cats[i].name
         IN  IF name = JNull THEN [exc |-> NoneTypeError("lower"), id |-> None]
             ELSE IF Lower(name) = Lower(category)
             THEN [exc |-> NoExc, id |-> cats[i].id]
             ELSE FindCategory(cats, category, i + 1)

\* lines 175-178: what get_popular_items does with the category_id it found
\* (variant: an unknown category falls back to the general listing)
AfterLookupBug(category_id) ==
    IF Truthy(category_id) THEN "by_category" ELSE "popular"
AfterLookup(category_id) ==
    IF Truthy(category_id) THEN "by_category" ELSE "not_found"

CategoryNotFound(category) == <<"Category '", category, "' not found">>

Plan(endpoint, hasLimit, limit, asked) ==
    [endpoint |-> endpoint, hasLimit |-> hasLimit, limit |-> limit,
     asked |-> asked]

\* the APIClient method a tool calls first, with the parameters it builds
FirstRequest(tool, limit, category) ==
    CASE tool = "search_items" ->
            Plan(SearchEndpoint, TRUE, ClampLimit(limit), limit)
      [] tool = "get_item_details" -> Plan(DetailsEndpoint(ItemId), FALSE, 0, 0)
      [] tool = "list_categories" -> Plan(CategoriesEndpoint, FALSE, 0, 0)
      [] tool = "get_popular_items" ->
            IF Truthy(category) THEN Plan(CategoriesEndpoint, FALSE, 0, 0)
            ELSE Plan(PopularEndpoint, TRUE, ClampLimit(limit), limit)

NoRequest ==
    [endpoint |-> <<>>, hasLimit |-> FALSE, limit |-> 0, asked |-> 0,
     handle |-> NoHandle, hstate |-> ""]

\* one tool invocation: its arguments, its local `client`, the number of
\* _make_request calls it has made, the request it awaits and what came back
NoTask ==
    [pc |-> "idle", tool |-> "", limit |-> 0, category |-> None,
     client |-> NoClient, nreq |-> 0, req |-> NoRequest, resp |-> NoResponse,
     result |-> NoResult]

\* the tool returns: its locals are gone, its result stays on record
Finish(tk, result) ==
    [NoTask EXCEPT !.pc = "done", !.tool = tk.tool, !.result = result]

\* APIClient._make_request up to the await of line 88, called on the tool's
\* local `client`: the handle is obtained and client.request is called on it.
\* The request record keeps the state the handle was in at that call.
MakeRequest(W, tk, plan) ==
    LET gc  == GetClient(W, tk.client)
        req == [endpoint |-> plan.endpoint, hasLimit |-> plan.hasLimit,
                limit |-> plan.limit, asked |-> plan.asked,
                handle |-> gc.handle, hstate |-> gc.W.hs[gc.handle]]
    IN  [W |-> gc.W,
         tk |-> [tk EXCEPT !.pc = "awaiting", !.nreq = @ + 1, !.req = req,
                           !.resp = NoResponse]]

\* a tool from its entry to its first client.request(...)
Enter(W, key, tool, limit, category) ==
    LET tk  == [NoTask EXCEPT !.tool = tool, !.limit = limit,
                              !.category = category]
        got == GetApiClient(W, key)
    IN  IF got.exc # NoExc
        THEN [W |-> got.W, tk |-> Finish(tk, Sentinel(tool, got.exc))]
        ELSE MakeRequest(got.W, [tk EXCEPT !.client = got.client],
                         FirstRequest(tool, limit, category))

\* a tool from the outcome tk.resp of its request to its next request or its
\* return
Continue(W, tk) ==
    LET exc == MakeRequestResult(tk.req.endpoint, tk.resp)
        ok  == Result("value", ToolShape(tk.tool), <<>>, "none")
        done(e) == IF e # NoExc THEN Finish(tk, Sentinel(tk.tool, e))
                   ELSE Finish(tk, ok)
    IN  IF exc # NoExc THEN [W |-> W, tk |-> done(exc)]
        ELSE CASE tk.tool = "search_items" ->
                    [W |-> W, tk |-> done(ReshapeItems(tk.resp.entries))]
               [] tk.tool = "get_item_details" ->
                    [W |-> W, tk |-> done(ReshapeDetails(tk.resp.entries[1]))]
               [] tk.tool = "list_categories" -> [W |-> W, tk |-> done(NoExc)]
               [] tk.tool = "get_popular_items" ->
                    IF tk.nreq = 1 /\ Truthy(tk.category)
                    THEN LET found == FindCategory(tk.resp.entries, tk.category, 1)
                         IN  IF found.exc # NoExc
                             THEN [W |-> W, tk |-> done(found.exc)]
                             ELSE CASE AfterLookup(found.id) = "by_category" ->
                                        MakeRequest(W, tk,
                                            Plan(CategoryItemsEndpoint(found.id), TRUE,
                                                 ClampLimit(tk.limit), tk.limit))
                                    [] AfterLookup(found.id) = "popular" ->
                                        MakeRequest(W, tk,
                                            Plan(PopularEndpoint, TRUE,
                                                 ClampLimit(tk.limit), tk.limit))
                                    [] OTHER ->
                                        [W |-> W,
                                         tk |-> Finish(tk, Result("sentinel", "list",
                                                    CategoryNotFound(tk.category),
                                                    "none"))]
                    ELSE [W |-> W, tk |-> done(ReshapeItems(tk.resp.entries))]

---------------------------------------------------------------------------
(* The state machine *)

SetWorld(W) ==
    /\ gclient' = W.g
    /\ handleOf' = W.ho
    /\ hstate' = W.hs
    /\ acloseCalls' = W.ac

NoCleaner == [pc |-> "idle", client |-> NoClient, handle |-> NoHandle]

InitCommon ==
    /\ apiKey \in EnvKeys
    /\ gclient = NoClient
    /\ handleOf = <<>>
    /\ hstate = <<>>
    /\ acloseCalls = <<>>
    /\ task = [t \in Tasks |-> NoTask]
    /\ cln = [k \in Cleaners |-> NoCleaner]
    /\ calls = 0
    /\ cleanups = 0

\* the functions called by a host, in any order and overlapping
Init == InitCommon /\ phase = "host"

\* the __main__ block: mcp.run() serving, then the finally clause, then atexit
InitMain == InitCommon /\ phase = "serving"

Serving == phase \in {"host", "serving"}

\* a host invokes one of the four tools (main.py lines 26, 71, 112, 146)
ToolStart(t) ==
    /\ Serving
    /\ task[t].pc \in {"idle", "done"}
    /\ calls < MaxCalls
    /\ \E tool \in Tools, limit \in Limits(phase = "host"),
          category \in Categories(phase = "host") :
          /\ tool \notin {"search_items", "get_popular_items"} => limit = 200
          /\ tool # "get_popular_items" => category = None
          /\ LET r == Enter(World, apiKey, tool, limit, category)
             IN  /\ SetWorld(r.W)
                 /\ task' = [task EXCEPT ![t] = r.tk]
    /\ calls' = calls + 1
    /\ UNCHANGED <<apiKey, cln, cleanups, phase>>

\* the upstream's answer, or the transport's failure, reaches the process and
\* makes the tool runnable.  The event loop runs one callback at a time, and a
\* delivery touches nothing but its own task, so it is taken up (ToolResume)
\* before the next one is modelled: every order of the steps that touch the
\* shared state is still there
Deliver(t) ==
    /\ Serving
    /\ task[t].pc = "awaiting"
    /\ \A u \in Tasks : task[u].pc # "got"
    /\ \E r \in Responses(task[t].req, phase = "host") :
          task' = [task EXCEPT ![t].pc = "got", ![t].resp = r]
    /\ UNCHANGED <<apiKey, gclient, handleOf, hstate, acloseCalls, cln, calls,
                   cleanups, phase>>

\* the event loop resumes the tool after the await of line 88
ToolResume(t) ==
    /\ Serving
    /\ task[t].pc = "got"
    /\ LET r == Continue(World, task[t])
       IN  /\ SetWorld(r.W)
           /\ task' = [task EXCEPT ![t] = r.tk]
    /\ UNCHANGED <<apiKey, cln, calls, cleanups, phase>>

\* the phase after a cleanup of the __main__ flow has returned
AfterCleanup(ph) ==
    CASE ph = "finally" -> "atexit"
      [] ph = "atexit"  -> "exited"
      [] OTHER          -> ph

\* cleanup_api_client is called (api_service.py lines 190-193, with close(),
\* lines 66-68); aclose() may suspend or return at once
CleanupStart(k) ==
    /\ cln[k].pc = "idle"
    /\ \/ phase = "host" /\ cleanups < MaxCleanupCalls
       \/ phase \in {"finally", "atexit"} /\ \A j \in Cleaners : cln[j].pc = "idle"
    /\ cleanups' = cleanups + 1
    /\ IF gclient = NoClient
       THEN /\ phase' = AfterCleanup(phase)
            /\ UNCHANGED <<gclient, handleOf, hstate, acloseCalls, cln>>
       ELSE IF handleOf[gclient] = NoHandle
       THEN /\ gclient' = NoClient
            /\ phase' = AfterCleanup(phase)
            /\ UNCHANGED <<handleOf, hstate, acloseCalls, cln>>
       ELSE LET a == gclient
                h == handleOf[a]
            IN  \E suspends \in BOOLEAN :
                  IF suspends
                  THEN /\ SetWorld(AcloseBegin(World, h))
                       /\ cln' = [cln EXCEPT ![k] =
                                    [pc |-> "aclose", client |-> a, handle |-> h]]
                       /\ phase' = phase
                  ELSE /\ SetWorld(CleanupFinish(AcloseBegin(World, h), a, h))
                       /\ phase' = AfterCleanup(phase)
                       /\ cln' = cln
    /\ UNCHANGED <<apiKey, task, calls>>

\* aclose() returns and cleanup_api_client runs to its end
CleanupResume(k) ==
    /\ cln[k].pc = "aclose"
    /\ SetWorld(CleanupFinish(World, cln[k].client, cln[k].handle))
    /\ cln' = [cln EXCEPT ![k] = NoCleaner]
    /\ phase' = AfterCleanup(phase)
    /\ UNCHANGED <<apiKey, task, calls, cleanups>>

\* mcp.run() returns or raises (main.py lines 222-229): its event loop is
\* gone, and with it every tool invocation, finished or still suspended
ServerStops ==
    /\ phase = "serving"
    /\ phase' = "finally"
    /\ task' = [t \in Tasks |-> NoTask]
    /\ UNCHANGED <<apiKey, gclient, handleOf, hstate, acloseCalls, cln, calls,
                   cleanups>>

Next ==
    \/ \E t \in Tasks : ToolStart(t)
    \/ \E t \in Tasks : Deliver(t)
    \/ \E t \in Tasks : ToolResume(t)
    \/ \E k \in Cleaners : CleanupStart(k)
    \/ \E k \in Cleaners : CleanupResume(k)

NextMain == Next \/ ServerStops

Spec == Init /\ [][Next]_vars

SpecMain == InitMain /\ [][NextMain]_vars

---------------------------------------------------------------------------
(* Properties *)

Handles == 1..Len(hstate)
Clients == 1..Len(handleOf)
Live == { h \in Handles : hstate[h] # "closed" }
InFlight(t) == task[t].pc \in {"awaiting", "got"}

\* the step is task t taking up the outcome of its request
Resumes(t) == task[t].pc = "got" /\ task'[t].pc \in {"awaiting", "done"}

\* C1: at any time at most one pooled handle is live, no handle is closed
\* more than once, and every live handle is the one stored on the global
\* APIClient (none is left on an APIClient that is no longer the global one).
C1_OneLiveHandle ==
    /\ Cardinality(Live) <= 1
    /\ \A h \in Handles : acloseCalls[h] <= 1
    /\ \A h \in Live : gclient # NoClient /\ handleOf[gclient] = h

\* C10: no request is ever issued through a handle whose aclose() has started.
C10_NoRequestOnClosingHandle ==
    \A t \in Tasks : InFlight(t) => task[t].req.hstate = "open"

StoredBefore(a) == IF a \in Clients THEN handleOf[a] ELSE NoHandle

\* C2: an APIClient's stored handle changes only from none to a newly built
\* one or, by close(), to none; a _make_request call on a client that stores a
\* handle uses that handle and builds nothing, and a call on a client that
\* stores none (at first, or after close()) builds exactly one handle, which
\* is none of the handles built before.
C2_HandleBuiltOnlyWhenNoneStored ==
    [][ /\ \A a \in Clients :
             handleOf[a] # NoHandle => handleOf'[a] \in {handleOf[a], NoHandle}
        /\ \A t \in Tasks :
             task'[t].nreq > task[t].nreq =>
               LET a == task'[t].client
                   h == task'[t].req.handle
               IN  /\ handleOf'[a] = h
                   /\ StoredBefore(a) # NoHandle =>
                        h = StoredBefore(a) /\ Len(hstate') = Len(hstate)
                   /\ StoredBefore(a) = NoHandle =>
                        /\ h \notin Handles
                        /\ Len(hstate') = Len(hstate) + 1
                        /\ hstate'[h] = "open"
      ]_vars

C2_Witness ==
    \E t \in Tasks, h \in Handles :
        /\ InFlight(t)
        /\ task[t].nreq = 2
        /\ hstate[h] = "closed"
        /\ task[t].req.handle # h
        /\ hstate[task[t].req.handle] = "open"
        /\ handleOf[task[t].client] = task[t].req.handle

NoLiveHandle ==
    /\ gclient = NoClient
    /\ \A h \in Handles : hstate[h] = "closed"
    /\ \A a \in Clients : handleOf[a] = NoHandle

IsSentinel(r, tool) ==
    r.status = "sentinel" /\ r.shape = ToolShape(tool) /\ Len(r.error) >= 1

HasNullDescription(entries) ==
    \E i \in 1..Len(entries) :
        entries[i].description = JNull \/ entries[i].full_description = JNull

\* a failure of the request, or of the reshaping that follows it
FailedRequest(tk) ==
    \/ tk.resp.kind = "transport"
    \/ tk.resp.kind = "http" /\ tk.resp.status >= 400
    \/ tk.resp.kind = "http" /\ ~tk.resp.json
    \/ /\ tk.tool # "list_categories"
       /\ tk.req.endpoint # CategoriesEndpoint
       /\ HasNullDescription(tk.resp.entries)

\* C4: no tool invocation lets an exception out, and one that meets a missing
\* API key, a transport failure, a status >= 400, a non-JSON body or a null
\* description returns the error sentinel of its shape.
C4_ToolsNeverRaise ==
    [][ \A t \in Tasks :
          /\ task'[t].result.status # "raised"
          /\ Resumes(t) /\ FailedRequest(task[t]) =>
               task'[t].pc = "done" /\ IsSentinel(task'[t].result, task[t].tool)
          /\ calls' > calls /\ task'[t] # task[t] /\ gclient = NoClient
               /\ apiKey \in {None, ""} =>
               task'[t].pc = "done" /\ IsSentinel(task'[t].result, task'[t].tool)
      ]_vars

C4_Witness ==
    \E t \in Tasks :
        /\ task[t].pc = "done"
        /\ task[t].tool = "search_items"
        /\ task[t].result.cause = "AttributeError"
        /\ task[t].result =
             Result("sentinel", "list",
                    <<"Search failed: ", "'NoneType' object has no attribute '",
                      "strip", "'">>, "AttributeError")

LimitedEndpoint(e) ==
    e = SearchEndpoint \/ e = PopularEndpoint
      \/ (Len(e) = 3 /\ e[1] = "/categories/" /\ e[3] = "/items")

\* C5: every request of search, get_popular_items and get_items_by_category
\* carries a limit: 50 when the caller's limit is above 50, the caller's limit
\* when it is not; no request carries a limit above 50.
C5_LimitClamped ==
    \A t \in Tasks :
        InFlight(t) =>
          LET r == task[t].req
          IN  /\ r.hasLimit <=> LimitedEndpoint(r.endpoint)
              /\ r.hasLimit =>
                   /\ r.asked = task[t].limit
                   /\ r.limit <= 50
                   /\ r.asked > 50 => r.limit = 50
                   /\ r.asked <= 50 => r.limit = r.asked

C5_Witness ==
    \E t \in Tasks :
        /\ InFlight(t)
        /\ task[t].req.endpoint = CategoryItemsEndpoint("c1")
        /\ task[t].limit = 200 /\ task[t].req.limit = 50

Tail1(seq) == SubSeq(seq, 2, Len(seq))

\* C6: a response with status >= 400 makes _make_request raise an APIError
\* (the tool then returns its sentinel around the message): "Not found: " and
\* the endpoint for 404, the authentication message for 401, the rate-limit
\* message for 429, "API error <status>: <body text>" for any other.
C6_StatusMessages ==
    [][ \A t \in Tasks :
          Resumes(t) /\ task[t].resp.kind = "http"
            /\ task[t].resp.status >= 400 =>
            LET st  == task[t].resp.status
                msg == Tail1(task'[t].result.error)
            IN  /\ task'[t].pc = "done"
                /\ task'[t].result.status = "sentinel"
                /\ task'[t].result.cause = "APIError"
                /\ st = 404 => msg = <<"Not found: ">> \o task[t].req.endpoint
                /\ st = 401 => msg = <<"Invalid API key or authentication failed">>
                /\ st = 429 => msg = <<"Rate limit exceeded - try again later">>
                /\ st \notin {404, 401, 429} =>
                     msg = <<"API error ", ToString(st), ": ", task[t].resp.text>>
      ]_vars

C6_Witness ==
    \E t \in Tasks :
        /\ task[t].pc = "done" /\ task[t].tool = "get_item_details"
        /\ task[t].result.error =
             <<"Failed to get item details: ", "Not found: ", "/items/", "i1">>

\* C7: with API_KEY absent or empty, no APIClient is ever stored in the global
\* reference, no handle is built, no request goes out, and every tool
\* invocation ends on the configuration error.
C7_NoKeyNoRequest ==
    apiKey \in {None, ""} =>
        /\ gclient = NoClient
        /\ handleOf = <<>>
        /\ hstate = <<>>
        /\ \A t \in Tasks :
              /\ ~InFlight(t)
              /\ task[t].nreq = 0
              /\ task[t].pc = "done" =>
                   /\ task[t].result.cause = "ValueError"
                   /\ task[t].result.status = "sentinel"

C7_Witness ==
    /\ apiKey = ""
    /\ calls = 2
    /\ \E t \in Tasks :
          task[t].pc = "done" /\ task[t].result.cause = "ValueError"

ListingAnswered(tk) ==
    /\ tk.pc = "got"
    /\ tk.tool = "get_popular_items"
    /\ Truthy(tk.category)
    /\ tk.nreq = 1
    /\ tk.resp.kind = "http" /\ tk.resp.status = 200 /\ tk.resp.json

\* no listed category's name equals the category, case-insensitively
NoNameEquals(entries, category) ==
    \A i \in 1..Len(entries) :
        entries[i].name \in {JNull, Absent}
          \/ Lower(entries[i].name) # Lower(category)

NotFoundOutput(category) ==
    Result("sentinel", "list", CategoryNotFound(category), "none")

\* a get_popular_items invocation with a category asks for the listing first
ListingFirst(t) ==
    InFlight(t) /\ task[t].tool = "get_popular_items"
      /\ Truthy(task[t].category) /\ task[t].nreq = 1 =>
        task[t].req.endpoint = CategoriesEndpoint

\* C8 as claimed: get_popular_items with a category asks for the listing
\* first, and when no listed name equals the category case-insensitively it
\* returns exactly the "Category '<category>' not found" sentinel without
\* another request.
C8_Original ==
    [][ \A t \in Tasks :
          /\ ListingFirst(t)
          /\ Resumes(t) /\ ListingAnswered(task[t])
               /\ NoNameEquals(task[t].resp.entries, task[t].category) =>
               /\ task'[t].pc = "done"
               /\ task'[t].result = NotFoundOutput(task[t].category)
      ]_vars

NoNullName(entries) == \A i \in 1..Len(entries) : entries[i].name # JNull

\* C8, amended: as claimed when no listed category has a null name; with a
\* null name listed and no name equal, the invocation still ends without
\* another request, on a sentinel.
C8_NotFoundWithoutSecondRequest ==
    [][ \A t \in Tasks :
          /\ ListingFirst(t)
          /\ Resumes(t) /\ ListingAnswered(task[t])
               /\ NoNameEquals(task[t].resp.entries, task[t].category) =>
               /\ task'[t].pc = "done"
               /\ IsSentinel(task'[t].result, "get_popular_items")
               /\ NoNullName(task[t].resp.entries) =>
                    task'[t].result = NotFoundOutput(task[t].category)
      ]_vars

C8_Witness ==
    \E t \in Tasks :
        /\ task[t].pc = "done"
        /\ task[t].tool = "get_popular_items"
        /\ task[t].result = NotFoundOutput("Drinks")

=============================================================================
